---- MODULE Spec2Model ----
(***************************************************************************)
(* Model of bot.py: a single-threaded bot that polls Scopus, deduplicates  *)
(* the entries against the SQLite table published_articles, translates the *)
(* title, inserts the row, notifies a Telegram channel, and exports the    *)
(* table to a CSV file on a weekly job.                                    *)
(*                                                                         *)
(* Text is modelled as a sequence of one-character strings, so that the    *)
(* string functions of the program (tag removal, split, strip, f-string    *)
(* concatenation) are computed as the code computes them.                  *)
(***************************************************************************)
EXTENDS Integers, Sequences, FiniteSets, TLC

VARIABLES
    store,      \* committed rows of published_articles (the file s_articles.db)
    txn,        \* rows inserted through conn and not yet committed
    pc,         \* position of the process in bot.py
    err,        \* exception raised by the last call ("none" if it returned)
    runq,       \* jobs of the current schedule.run_pending() still to run
    resp,       \* resp of search_scopus: [status, body]
    entries,    \* entries of search_scopus
    idx,        \* position of the for loop in entries (1-based)
    rus_title,  \* rus_title of search_scopus
    csv,        \* content of scopus_pub.csv: a sequence of rows
    log,        \* what the current or last job of the process did, in order
    translated, \* external translation calls made so far, per hash
    sent,       \* the send_message calls made so far, per hash
    docs,       \* number of send_document calls that delivered the file
    cycles,     \* number of search_scopus calls started so far
    exports     \* number of send_csv_to_telegram calls started so far

vars == <<store, txn, pc, err, runq, resp, entries, idx, rus_title, csv, log,
          translated, sent, docs, cycles, exports>>

----------------------------------------------------------------------------
(* Bounds of the model *)

\* number of search_scopus calls explored (first call, scheduled calls, and
\* the first call of every restarted process)
MaxCycles == 2

\* number of send_csv_to_telegram calls explored
MaxExports == 2

\* length of the entry list explored; the query asks for count=10
MaxEntries == 2

----------------------------------------------------------------------------
(* Text *)

NoDOI    == <<"N", "o", " ", "D", "O", "I">>
NoTitle  == <<"N", "o", " ", "T", "i", "t", "l", "e">>
NoDate   == <<"N", "o", " ", "D", "a", "t", "e">>
NoAuthor == <<"N", "o", " ", "A", "u", "t", "h", "o", "r">>
NoLink   == <<"N", "o", " ", "l", "i", "n", "k">>
\* the placeholder returned for a missing title (a Russian phrase in the
\* source, transliterated here)
NetZagolovka == <<"N", "e", "t", " ", "z", "a", "g", "o", "l", "o", "v", "k", "a">>
\* the marker of the message for a record without DOI (Russian in the source)
BezDOI == <<"B", "e", "z", " ", "D", "O", "I">>
DoiOrg == <<"h", "t", "t", "p", "s", ":", "/", "/", "d", "o", "i", ".", "o", "r", "g", "/">>

\* entry.get(key, default)
Get(entry, key, default) ==
    IF key \in DOMAIN entry THEN entry[key] ELSE default

\* position of the first occurrence of character c in s, 0 if there is none
RECURSIVE Find(_, _, _)
Find(s, c, from) ==
    IF from > Len(s) THEN 0
    ELSE IF s[from] = c THEN from
    ELSE Find(s, c, from + 1)

\* re.sub(r"<[^>]*>", "", text or ""): every "<" that has a ">" after it is
\* removed together with everything up to the first such ">"
RECURSIVE remove_html_tags(_)
remove_html_tags(text) ==
    IF text = <<>> THEN <<>>
    ELSE IF Head(text) = "<" /\ Find(text, ">", 2) # 0
         THEN remove_html_tags(SubSeq(text, Find(text, ">", 2) + 1, Len(text)))
         ELSE <<Head(text)>> \o remove_html_tags(Tail(text))

\* str.strip() for the whitespace of the model, the space character
RECURSIVE LStrip(_)
LStrip(s) ==
    IF s # <<>> /\ Head(s) = " " THEN LStrip(Tail(s)) ELSE s

RECURSIVE RStrip(_)
RStrip(s) ==
    IF s # <<>> /\ s[Len(s)] = " " THEN RStrip(SubSeq(s, 1, Len(s) - 1)) ELSE s

Strip(s) == RStrip(LStrip(s))

\* creators.split(";")[0].strip()
extract_first_author(entry) ==
    LET creators == Get(entry, "dc:creator", NoAuthor)
        semi == Find(creators, ";", 1)
    IN  Strip(IF semi = 0 THEN creators ELSE SubSeq(creators, 1, semi - 1))

\* f"{doi}-{eng_title_clean}-{pub_date}-{first_author}"
unique_str(doi, eng_title_clean, pub_date, first_author) ==
    doi \o <<"-">> \o eng_title_clean \o <<"-">> \o pub_date \o <<"-">> \o first_author

\* hashlib.md5(...).hexdigest(), taken as injective on the hashed string
md5(s) == <<"md5", s>>

\* the fields search_scopus derives from one entry (lines 89-99)
Doi(entry)      == Get(entry, "prism:doi", NoDOI)
EngTitle(entry) == remove_html_tags(Get(entry, "dc:title", NoTitle))
PubDate(entry)  == Get(entry, "prism:coverDate", NoDate)
RecHash(entry)  ==
    md5(unique_str(Doi(entry), EngTitle(entry), PubDate(entry),
                   extract_first_author(entry)))

----------------------------------------------------------------------------
(* The environment: what the external services may answer *)

\* entries the search may return; fields may be missing
EntryA == ("prism:doi" :> <<"1">>) @@
          ("dc:title" :> <<"<", "i", ">", "H", "<", "/", "i", ">", "2">>) @@
          ("prism:coverDate" :> <<"7">>) @@
          ("dc:creator" :> <<"A", ";", " ", "B">>)
\* the record of EntryA, served without markup and with one creator
EntryB == ("prism:doi" :> <<"1">>) @@
          ("dc:title" :> <<"H", "2">>) @@
          ("prism:coverDate" :> <<"7">>) @@
          ("dc:creator" :> <<"A", " ">>)
\* an entry with none of the four fields
EntryC == ("eid" :> <<"9">>)
Entries == {EntryA, EntryB, EntryC}

Hashes == {RecHash(e) : e \in Entries}

RECURSIVE SeqsUpTo(_, _)
SeqsUpTo(S, n) ==
    IF n = 0 THEN {<<>>}
    ELSE LET shorter == SeqsUpTo(S, n - 1)
         IN  shorter \cup {Append(q, x) : q \in shorter, x \in S}

\* a response: its status code, whether its body is a JSON document, and the
\* entry list of that document (empty when the document has none)
Responses ==
    [status : {200, 500}, json : {TRUE}, body : SeqsUpTo(Entries, MaxEntries)]
    \cup [status : {200, 500}, json : {FALSE}, body : {<<>>}]

NoResp == [status |-> 0, json |-> FALSE, body |-> <<>>]

\* replies of the translation service before .strip()
Replies == {<<" ", "R", " ">>}

\* jobs that may be due when run_pending() is called, in the order they run
DueJobs == {<<"poll">>, <<"export">>, <<"poll", "export">>, <<"export", "poll">>}

----------------------------------------------------------------------------
(* The table published_articles *)

\* SELECT * FROM published_articles WHERE hash=? ; cursor.fetchone()
\* the SELECT finds no row, whatever the table holds
ExistsNever(rows, h) == FALSE

Exists(rows, h) == \E i \in DOMAIN rows : rows[i].hash = h

\* the table declared without UNIQUE on hash
NoUniqueConstraint(rows, h) == FALSE

\* the constraint "hash TEXT UNIQUE" of the table, checked by INSERT
UniqueViolation(rows, h) == \E i \in DOMAIN rows : rows[i].hash = h

\* the row INSERT adds; id INTEGER PRIMARY KEY AUTOINCREMENT of a table that
\* is never deleted from
NewRow(rows, entry, rus) ==
    [id           |-> Len(rows) + 1,
     hash         |-> RecHash(entry),
     doi          |-> Doi(entry),
     eng_title    |-> EngTitle(entry),
     rus_title    |-> rus,
     first_author |-> extract_first_author(entry),
     pub_date     |-> PubDate(entry)]

\* the rows of the transaction never reach the file
CommitNothing(st, tx) == st

\* conn.commit(): the rows of the open transaction become part of the file
CommitRows(st, tx) == st \o tx

\* the service is called whatever the title is
AlwaysTranslate(eng_title) == FALSE

\* if not eng_title or eng_title == "No Title"
NoTitleToTranslate(eng_title) == eng_title = <<>> \/ eng_title = NoTitle

\* the except branch returns the placeholder instead of the title
FallbackPlaceholder(eng_title) == NetZagolovka

\* the except branch of translate_title_openai: return eng_title
TranslationFallback(eng_title) == eng_title

\* the message send_to_telegram builds: the text parts and the URL of the
\* inline button (<<>> when no button is added)
\* the button is added whether or not the article has a DOI
MessageAlwaysButton(rus, first_author, pub_date, doi) ==
    [title    |-> rus,
     author   |-> first_author,
     date     |-> pub_date,
     doi_link |-> IF doi = NoDOI THEN BezDOI
                  ELSE <<"[">> \o doi \o <<"]", "(">> \o DoiOrg \o doi \o <<")">>,
     button   |-> DoiOrg \o doi]

Message(rus, first_author, pub_date, doi) ==
    [title    |-> rus,
     author   |-> first_author,
     date     |-> pub_date,
     doi_link |-> IF doi = NoDOI THEN BezDOI
                  ELSE <<"[">> \o doi \o <<"]", "(">> \o DoiOrg \o doi \o <<")">>,
     button   |-> IF doi = NoDOI THEN <<>> ELSE DoiOrg \o doi]

\* the header row and the row export_db_to_csv writes for a table row
CsvHeader == <<"ID", "Hash", "DOI", "English Title", "Russian Title",
               "First Author", "Publication Date", "Original Link">>

\* str() of a row id, as csv.writer writes an integer
Digits == <<"0", "1", "2", "3", "4", "5", "6", "7", "8", "9">>

RECURSIVE Decimal(_)
Decimal(n) ==
    IF n < Len(Digits) THEN <<Digits[n + 1]>>
    ELSE Decimal(n \div Len(Digits)) \o <<Digits[(n % Len(Digits)) + 1]>>

CsvRow(row) ==
    <<Decimal(row.id), row.hash, row.doi, row.eng_title, row.rus_title,
      row.first_author, row.pub_date,
      IF row.doi # NoDOI THEN DoiOrg \o row.doi ELSE NoLink>>

\* the SELECT hands the rows over newest first
CsvRowsNewestFirst(rows) ==
    [i \in DOMAIN rows |-> CsvRow(rows[Len(rows) + 1 - i])]

\* the rows of the table in the order the SELECT of line 221 yields them
CsvRows(rows) == [i \in DOMAIN rows |-> CsvRow(rows[i])]

----------------------------------------------------------------------------
(* The process *)

\* the entry the for loop of search_scopus is at
\* the loop takes the entries from the end of the list
EntryFromEnd == entries[Len(entries) + 1 - idx]

Entry == entries[idx]

\* one step of a job, for the entry with hash h (<<>> when it is about none)
Event(op, h) == [op |-> op, hash |-> h]

\* run_pending() returns after the first due job
AfterJobIdle(q) == "idle"

\* run_pending() goes on with its next due job, or returns to the loop
AfterJob(q) == IF q = <<>> THEN "idle" ELSE "run"

\* the locals of search_scopus are gone when it returns or raises
DropLocals ==
    /\ resp' = NoResp
    /\ entries' = <<>>
    /\ idx' = 0
    /\ rus_title' = <<>>

\* a job returns to run_pending()
Return ==
    /\ pc' = AfterJob(runq)
    /\ DropLocals
    /\ UNCHANGED <<txn, runq>>

\* nothing in bot.py catches e: it leaves the job, run_pending() and the
\* while loop, and the process ends; the open transaction is rolled back
\* (log keeps what the job had done)
Raise(e) ==
    /\ pc' = "exited"
    /\ err' = e
    /\ txn' = <<>>
    /\ runq' = <<>>
    /\ UNCHANGED log
    /\ DropLocals

Init ==
    /\ store = <<>>
    /\ txn = <<>>
    /\ pc = "fetch"
    /\ err = "none"
    /\ runq = <<>>
    /\ resp = NoResp
    /\ entries = <<>>
    /\ idx = 0
    /\ rus_title = <<>>
    /\ csv = <<>>
    /\ log = <<>>
    /\ translated = [h \in Hashes |-> 0]
    /\ sent = [h \in Hashes |-> <<>>]
    /\ docs = 0
    /\ cycles = 1
    /\ exports = 0

\* the status of the response is not looked at
AnyStatusOk(r) == TRUE

\* resp.status_code != 200 is the failure test of search_scopus
StatusOk(r) == r.status = 200

\* resp = requests.get(url, headers=headers)
RequestsGet ==
    /\ pc = "fetch"
    /\ \/ Raise("ConnectionError")
       \/ /\ \E r \in Responses : resp' = r
          /\ pc' = "resp"
          /\ err' = "none"
          /\ UNCHANGED <<txn, runq, entries, idx, rus_title, log>>
    /\ UNCHANGED <<store, csv, translated, sent, docs, cycles, exports>>

\* lines 77-85: the status test, resp.json() and the empty-list test
HandleResponse ==
    /\ pc = "resp"
    /\ IF ~StatusOk(resp)
       THEN /\ Return
            /\ err' = "none"
            /\ log' = Append(log, Event("fetch_error", <<>>))
       ELSE IF ~resp.json
       THEN Raise("JSONDecodeError")
       ELSE IF resp.body = <<>>
       THEN /\ Return
            /\ err' = "none"
            /\ log' = Append(log, Event("no_entries", <<>>))
       ELSE /\ entries' = resp.body
            /\ idx' = 1
            /\ pc' = "check"
            /\ err' = "none"
            /\ UNCHANGED <<txn, runq, resp, rus_title, log>>
    /\ UNCHANGED <<store, csv, translated, sent, docs, cycles, exports>>

\* lines 87-105: the head of the for loop, the fields of the entry and the
\* SELECT that looks the hash up
CheckEntry ==
    /\ pc = "check"
    /\ IF idx > Len(entries)
       THEN /\ Return
            /\ err' = "none"
            /\ UNCHANGED log
       ELSE \/ Raise("OperationalError")
            \/ /\ IF Exists(store \o txn, RecHash(Entry))
                  THEN /\ idx' = idx + 1
                       /\ pc' = "check"
                       /\ log' = Append(log, Event("skip", RecHash(Entry)))
                  ELSE /\ idx' = idx
                       /\ pc' = "translate"
                       /\ log' = Append(log, Event("new", RecHash(Entry)))
               /\ err' = "none"
               /\ UNCHANGED <<txn, runq, resp, entries, rus_title>>
    /\ UNCHANGED <<store, csv, translated, sent, docs, cycles, exports>>

\* line 110 and translate_title_openai
Translate ==
    /\ pc = "translate"
    /\ IF NoTitleToTranslate(EngTitle(Entry))
       THEN /\ rus_title' = NetZagolovka
            /\ err' = "none"
            /\ log' = Append(log, Event("placeholder", RecHash(Entry)))
            /\ UNCHANGED translated
       ELSE /\ translated' =
                  [translated EXCEPT ![RecHash(Entry)] = @ + 1]
            /\ \/ /\ \E reply \in Replies : rus_title' = Strip(reply)
                  /\ err' = "none"
                  /\ log' = Append(log, Event("translate", RecHash(Entry)))
               \/ /\ rus_title' = TranslationFallback(EngTitle(Entry))
                  /\ err' = "OpenAIError"
                  /\ log' = Append(log, Event("translate_failed", RecHash(Entry)))
    /\ pc' = "insert"
    /\ UNCHANGED <<store, txn, runq, resp, entries, idx, csv, sent, docs,
                   cycles, exports>>

\* lines 113-116: cursor.execute(INSERT ...)
Insert ==
    /\ pc = "insert"
    /\ \/ Raise("OperationalError")
       \/ IF UniqueViolation(store \o txn, RecHash(Entry))
          THEN Raise("IntegrityError")
          ELSE /\ txn' = Append(txn, NewRow(store \o txn, Entry, rus_title))
               /\ pc' = "commit"
               /\ err' = "none"
               /\ log' = Append(log, Event("insert", RecHash(Entry)))
               /\ UNCHANGED <<runq, resp, entries, idx, rus_title>>
    /\ UNCHANGED <<store, csv, translated, sent, docs, cycles, exports>>

\* line 117: conn.commit()
Commit ==
    /\ pc = "commit"
    /\ \/ /\ Raise("OperationalError")
          /\ UNCHANGED store
       \/ /\ store' = CommitRows(store, txn)
          /\ txn' = <<>>
          /\ pc' = "send"
          /\ err' = "none"
          /\ log' = Append(log, Event("commit", RecHash(Entry)))
          /\ UNCHANGED <<runq, resp, entries, idx, rus_title>>
    /\ UNCHANGED <<csv, translated, sent, docs, cycles, exports>>

\* send_message outside of try/except: the failure leaves search_scopus
SendFailedRaises ==
    /\ Raise("TelegramError")
    /\ UNCHANGED store

\* the except branch takes the row of the record back out of the table
SendFailedDeletesRow ==
    /\ err' = "TelegramError"
    /\ pc' = "check"
    /\ idx' = idx + 1
    /\ log' = Append(log, Event("send_failed", RecHash(Entry)))
    /\ store' = SubSeq(store, 1, Len(store) - 1)
    /\ UNCHANGED <<txn, runq, resp, entries, rus_title>>

\* the except branch of send_to_telegram: the failure is printed, the
\* function returns and the for loop goes on
SendFailed ==
    /\ err' = "TelegramError"
    /\ pc' = "check"
    /\ idx' = idx + 1
    /\ log' = Append(log, Event("send_failed", RecHash(Entry)))
    /\ UNCHANGED <<store, txn, runq, resp, entries, rus_title>>

\* line 120 and send_to_telegram
Send ==
    /\ pc = "send"
    /\ LET msg == Message(rus_title, extract_first_author(Entry),
                          PubDate(Entry), Doi(Entry))
       IN  \/ /\ sent' = [sent EXCEPT ![RecHash(Entry)] =
                              Append(@, [msg |-> msg, ok |-> TRUE])]
              /\ err' = "none"
              /\ pc' = "check"
              /\ idx' = idx + 1
              /\ log' = Append(log, Event("send", RecHash(Entry)))
              /\ UNCHANGED <<store, txn, runq, resp, entries, rus_title>>
           \/ /\ sent' = [sent EXCEPT ![RecHash(Entry)] =
                              Append(@, [msg |-> msg, ok |-> FALSE])]
              /\ SendFailed
    /\ UNCHANGED <<csv, translated, docs, cycles, exports>>

\* the file is opened in mode "a": the rows of the last export stay in it
ExportOpenAppend ==
    /\ pc = "export_open"
    /\ csv' = csv \o <<CsvHeader>>
    /\ pc' = "export_rows"
    /\ err' = "none"
    /\ UNCHANGED <<txn, runq, resp, entries, idx, rus_title, log>>
    /\ UNCHANGED <<store, translated, sent, docs, cycles, exports>>

\* lines 213-219 of export_db_to_csv: open(filename, "w") and the header row
ExportOpen ==
    /\ pc = "export_open"
    /\ \/ /\ Raise("OSError")
          /\ UNCHANGED csv
       \/ /\ csv' = <<CsvHeader>>
          /\ pc' = "export_rows"
          /\ err' = "none"
          /\ UNCHANGED <<txn, runq, resp, entries, idx, rus_title, log>>
    /\ UNCHANGED <<store, translated, sent, docs, cycles, exports>>

\* lines 221-235: the SELECT and one writerow per row; a write may fail
\* after any number of rows has reached the file
ExportRows ==
    /\ pc = "export_rows"
    /\ \/ /\ Raise("OperationalError")
          /\ UNCHANGED csv
       \/ /\ \E k \in 0..Len(store \o txn) :
                 csv' = csv \o SubSeq(CsvRows(store \o txn), 1, k)
          /\ Raise("OSError")
       \/ /\ csv' = csv \o CsvRows(store \o txn)
          /\ pc' = "send_doc"
          /\ err' = "none"
          /\ log' = Append(log, Event("exported", <<>>))
          /\ UNCHANGED <<txn, runq, resp, entries, idx, rus_title>>
    /\ UNCHANGED <<store, translated, sent, docs, cycles, exports>>

\* lines 242-247 of send_csv_to_telegram: bot.send_document in try/except
SendDocument ==
    /\ pc = "send_doc"
    /\ \/ /\ docs' = docs + 1
          /\ Return
          /\ err' = "none"
          /\ log' = Append(log, Event("document", <<>>))
       \/ /\ docs' = docs
          /\ Return
          /\ err' = "TelegramError"
          /\ log' = Append(log, Event("document_failed", <<>>))
    /\ UNCHANGED <<store, csv, translated, sent, cycles, exports>>

\* number of times job occurs in the job list q
RECURSIVE Count(_, _)
Count(q, job) ==
    IF q = <<>> THEN 0
    ELSE (IF Head(q) = job THEN 1 ELSE 0) + Count(Tail(q), job)

\* lines 263-265: the while loop wakes up and run_pending() finds jobs due
Tick ==
    /\ pc = "idle"
    /\ \E q \in DueJobs :
          /\ cycles + Count(q, "poll") <= MaxCycles
          /\ exports + Count(q, "export") <= MaxExports
          /\ runq' = q
    /\ pc' = "run"
    /\ err' = "none"
    /\ UNCHANGED <<store, txn, resp, entries, idx, rus_title, csv, log,
                   translated, sent, docs, cycles, exports>>

\* run_pending() calls the next due job: search_scopus (line 253) or
\* send_csv_to_telegram (line 256)
RunJob ==
    /\ pc = "run"
    /\ runq' = Tail(runq)
    /\ IF Head(runq) = "poll"
       THEN /\ pc' = "fetch"
            /\ cycles' = cycles + 1
            /\ UNCHANGED exports
       ELSE /\ pc' = "export_open"
            /\ exports' = exports + 1
            /\ UNCHANGED cycles
    /\ err' = "none"
    /\ log' = <<>>
    /\ UNCHANGED <<store, txn, resp, entries, idx, rus_title, csv,
                   translated, sent, docs>>

\* the process is stopped from outside (signal, power loss) at any point
Kill ==
    /\ pc # "exited"
    /\ Raise("killed")
    /\ UNCHANGED <<store, csv, translated, sent, docs, cycles, exports>>

\* the bot is started again: lines 17-48 reopen s_articles.db, whose table
\* exists, and line 261 calls search_scopus()
Restart ==
    /\ pc = "exited"
    /\ cycles < MaxCycles
    /\ pc' = "fetch"
    /\ err' = "none"
    /\ log' = <<>>
    /\ cycles' = cycles + 1
    /\ UNCHANGED <<store, txn, runq, resp, entries, idx, rus_title, csv,
                   translated, sent, docs, exports>>

Next ==
    \/ RequestsGet
    \/ HandleResponse
    \/ CheckEntry
    \/ Translate
    \/ Insert
    \/ Commit
    \/ Send
    \/ ExportOpen
    \/ ExportRows
    \/ SendDocument
    \/ Tick
    \/ RunJob
    \/ Kill
    \/ Restart

Spec == Init /\ [][Next]_vars

----------------------------------------------------------------------------
(* Two bots on one database file *)

\* a second process running bot.py on the same s_articles.db inserts and
\* commits the row of an entry (lines 113-117); SQLite lets one connection
\* write at a time and checks the UNIQUE constraint for every connection
OtherWriter ==
    /\ txn = <<>>
    /\ \E e \in Entries, rus \in {Strip(r) : r \in Replies} :
          /\ ~UniqueViolation(store, RecHash(e))
          /\ store' = CommitRows(store, <<NewRow(store, e, rus)>>)
    /\ UNCHANGED <<txn, pc, err, runq, resp, entries, idx, rus_title, csv,
                   log, translated, sent, docs, cycles, exports>>

NextShared == Next \/ OtherWriter

SpecShared == Init /\ [][NextShared]_vars

----------------------------------------------------------------------------
(* Properties *)

Last(q) == q[Len(q)]

RowsWith(h) == {i \in DOMAIN store : store[i].hash = h}

\* the process was stopped from outside
Killed == pc = "exited" /\ err = "killed"

\* C1: over all poll cycles and fetch results, every hash has at most one
\* row committed to the table and at most one send_message call made for it.
C1_InsertedAndNotifiedAtMostOnce ==
    \A h \in Hashes :
        /\ Cardinality(RowsWith(h)) <= 1
        /\ Len(sent[h]) <= 1

\* a second poll cycle was handed the same record twice and skipped it both
\* times: its row and its one notification are from the first cycle
C1_Witness ==
    \E h \in Hashes :
        /\ cycles = 2
        /\ log = <<Event("skip", h), Event("skip", h)>>
        /\ Cardinality(RowsWith(h)) = 1
        /\ Len(sent[h]) = 1

\* C2: no two rows of the table, committed or in the open transaction, have
\* the same hash, also when another connection inserts between the SELECT
\* and the INSERT of a poll cycle.
C2_HashUnique ==
    \A i, j \in DOMAIN (store \o txn) :
        (store \o txn)[i].hash = (store \o txn)[j].hash => i = j

\* an INSERT of a record the SELECT had found new was rejected by the table
C2_Witness ==
    /\ pc = "exited"
    /\ err = "IntegrityError"
    /\ log # <<>>
    /\ Last(log).op \in {"translate", "translate_failed", "placeholder"}
    /\ Event("new", Last(log).hash) \in {log[k] : k \in DOMAIN log}
    /\ Cardinality(RowsWith(Last(log).hash)) = 1

\* external translation calls the current job made for hash h
CallsInLog(h) ==
    Cardinality({k \in DOMAIN log :
                    /\ log[k].hash = h
                    /\ log[k].op \in {"translate", "translate_failed"}})

\* C3 as stated: every record a poll cycle found new and processed has had
\* exactly one translation call and exactly one send_message call.
C3_ExactlyOneTranslationAndSend ==
    \A k \in DOMAIN log :
        log[k].op \in {"send", "send_failed"} =>
            /\ translated[log[k].hash] = 1
            /\ Len(sent[log[k].hash]) = 1

\* C3 as amended: a record a poll cycle found new and processed up to the
\* send has exactly one send_message call, over all cycles; the cycle made
\* one translation call for it if its title is non-empty and not "No Title",
\* and none otherwise; no cycle translates a record twice, and a record
\* without title is never translated.
C3_Amended ==
    /\ \A h \in Hashes :
          /\ Len(sent[h]) <= 1
          /\ translated[h] <= cycles
          /\ CallsInLog(h) <= 1
    /\ \A k \in DOMAIN log :
          log[k].op \in {"send", "send_failed"} =>
              /\ Len(sent[log[k].hash]) = 1
              /\ \E i \in RowsWith(log[k].hash) :
                    IF store[i].eng_title = <<>> \/ store[i].eng_title = NoTitle
                    THEN /\ CallsInLog(log[k].hash) = 0
                         /\ translated[log[k].hash] = 0
                    ELSE /\ CallsInLog(log[k].hash) = 1
                         /\ translated[log[k].hash] >= 1

\* a record without title was inserted and notified, with no translation call
C3_Witness ==
    /\ Event("send", RecHash(EntryC)) \in {log[k] : k \in DOMAIN log}
    /\ translated[RecHash(EntryC)] = 0
    /\ Len(sent[RecHash(EntryC)]) = 1
    /\ RowsWith(RecHash(EntryC)) # {}

\* C4: the step that handles a response whose status is not 200 returns to
\* the scheduler loop (where the poll job stays registered and fetches
\* again), leaving table, transaction, translation calls and sends as they
\* were and starting on no entry.
C4_FetchFailureAbortsCycle ==
    [][(pc = "resp" /\ resp.status # 200 /\ err' # "killed") =>
          /\ pc' \in {"idle", "run"}
          /\ err' = "none"
          /\ entries' = <<>>
          /\ store' = store
          /\ txn' = txn
          /\ translated' = translated
          /\ sent' = sent
          /\ log' = Append(log, Event("fetch_error", <<>>))]_vars

\* a first poll cycle ended on a failed fetch and the process is back in the
\* scheduler loop with nothing stored, translated or sent
C4_Witness ==
    /\ pc = "idle"
    /\ log = <<Event("fetch_error", <<>>)>>
    /\ store = <<>>
    /\ \A h \in Hashes : translated[h] = 0 /\ sent[h] = <<>>

\* C5: after a failed translation call the cycle goes on to the INSERT with
\* the original title as rus_title; the row committed and the message sent
\* carry that title, the loop goes on after the send, and no translation
\* call is made for a hash that has a committed row.
C5_TranslationFailureStillPublishes ==
    /\ [](\A k \in DOMAIN log :
            log[k].op = "translate_failed" =>
                /\ k = Len(log) =>
                      \/ pc = "insert" /\ rus_title = EngTitle(Entry)
                      \/ pc = "exited" /\ err \in {"killed", "OperationalError"}
                /\ k + 1 <= Len(log) => log[k + 1] = Event("insert", log[k].hash)
                /\ k + 2 <= Len(log) =>
                      /\ log[k + 2] = Event("commit", log[k].hash)
                      /\ \E i \in RowsWith(log[k].hash) :
                            store[i].rus_title = store[i].eng_title
                /\ k + 3 <= Len(log) =>
                      /\ log[k + 3].op \in {"send", "send_failed"}
                      /\ log[k + 3].hash = log[k].hash
                      /\ \E i \in RowsWith(log[k].hash) :
                            sent[log[k].hash][1].msg.title = store[i].eng_title
                /\ k + 3 = Len(log) =>
                      \/ pc = "check" /\ idx <= Len(entries) + 1
                      \/ pc \in {"idle", "run"}
                      \/ pc = "exited" /\ err \in {"killed", "OperationalError"})
    /\ [][\A h \in Hashes :
            RowsWith(h) # {} => translated'[h] = translated[h]]_vars

\* a record stored and notified with its original title after a failed
\* translation is fetched again by a second cycle, which skips it
C5_Witness ==
    \E h \in Hashes :
        /\ cycles = 2
        /\ log = <<Event("skip", h)>>
        /\ translated[h] = 1
        /\ Len(sent[h]) = 1
        /\ \E i \in RowsWith(h) :
              /\ store[i].rus_title = store[i].eng_title
              /\ sent[h][1].msg.title = store[i].eng_title

\* C6: a failed send_message leaves the table as it is, with the row of the
\* record in it, and the loop goes to the next entry; a record whose send
\* failed keeps its row and gets no further send_message call.
C6_SendFailureKeepsRowNoRetry ==
    /\ [][(pc = "send" /\ sent' # sent
              /\ ~Last(sent'[RecHash(Entry)]).ok) =>
             /\ pc' = "check"
             /\ idx' = idx + 1
             /\ entries' = entries
             /\ store' = store
             /\ RowsWith(RecHash(Entry)) # {}]_vars
    /\ [][\A h \in Hashes :
            (sent[h] # <<>> /\ ~sent[h][1].ok) =>
                /\ sent'[h] = sent[h]
                /\ \E i \in DOMAIN store' : store'[i].hash = h]_vars

\* a record whose send failed is fetched again by a second cycle, which
\* skips it
C6_Witness ==
    \E h \in Hashes :
        /\ cycles = 2
        /\ log = <<Event("skip", h)>>
        /\ Len(sent[h]) = 1
        /\ ~sent[h][1].ok
        /\ RowsWith(h) # {}

\* C7: when the INSERT of a record that passed the SELECT meets a row with
\* its hash, the poll cycle sends nothing for it and goes on with the next
\* entry.
C7_DuplicateInsertSkipped ==
    [][(/\ pc = "insert"
        /\ pc' # "insert"
        /\ \E i \in DOMAIN store : store[i].hash = RecHash(Entry)
        /\ err' \notin {"killed", "OperationalError"}) =>
          /\ pc' = "check"
          /\ idx' = idx + 1
          /\ entries' = entries
          /\ sent' = sent]_vars

\* C8: when the SELECT, the INSERT or the commit fails because the store is
\* unavailable, the poll cycle sends nothing for the entry and goes on with
\* the next one.
C8_StoreFailureSkipsCandidate ==
    [][(pc \in {"check", "insert", "commit"} /\ err' = "OperationalError") =>
          /\ pc' = "check"
          /\ idx' = idx + 1
          /\ entries' = entries
          /\ sent' = sent]_vars

\* C9: the process is never ended by the failure of an external call.
C9_ExternalFailureNeverTerminates ==
    ~(/\ pc = "exited"
      /\ err \in {"ConnectionError", "JSONDecodeError", "OpenAIError",
                  "TelegramError", "OSError"})

\* C10: when writing the export file fails, the job sends no document,
\* leaves the table alone and returns to the scheduler loop.
C10_ExportFailureAbortsJobOnly ==
    [][(pc \in {"export_open", "export_rows"} /\ err' = "OSError") =>
          /\ docs' = docs
          /\ store' = store
          /\ pc' \in {"idle", "run"}]_vars

\* C11: no step removes or changes a committed row: every row of the table
\* is in the table after the step, at its place and with all its fields.
C11_StoreOnlyGrows ==
    [][/\ Len(store') >= Len(store)
       /\ \A i \in DOMAIN store : store'[i] = store[i]]_vars

\* the row a first cycle inserted was exported, and is still the first row,
\* as exported, after a second cycle has inserted another row
C11_Witness ==
    /\ cycles = 2
    /\ Len(store) = 2
    /\ docs = 1
    /\ Len(csv) = 2
    /\ csv[2][2] = store[1].hash
    /\ csv[2][5] = store[1].rus_title
    /\ Event("commit", store[2].hash) \in {log[k] : k \in DOMAIN log}

PollStates == {"fetch", "resp", "check", "translate", "insert", "commit", "send"}

ExportStates == {"export_open", "export_rows", "send_doc"}

PollOps == {"fetch_error", "no_entries", "skip", "new", "placeholder",
            "translate", "translate_failed", "insert", "commit", "send",
            "send_failed"}

ExportOps == {"exported", "document", "document_failed"}

Exported == log # <<>> /\ log[1].op = "exported"

\* the "Original Link" column for a stored article id
LinkOf(doi) == IF doi = NoDOI THEN NoLink ELSE DoiOrg \o doi

\* C13: after a successful export the file is the header followed by exactly
\* one row per row of the table and nothing else; each row carries the field
\* values of its table row, and its link is https://doi.org/<id> or 'No link'.
C13_ExportMatchesStore ==
    Exported =>
       /\ csv[1] = CsvHeader
       /\ Len(csv) = Len(store) + 1
       /\ \A i \in DOMAIN store :
             \E k \in 2..Len(csv) :
                /\ \A j \in 2..Len(csv) : csv[j][2] = store[i].hash => j = k
                /\ csv[k] = <<Decimal(store[i].id), store[i].hash, store[i].doi,
                              store[i].eng_title, store[i].rus_title,
                              store[i].first_author, store[i].pub_date,
                              LinkOf(store[i].doi)>>

\* the second export of a run, over a table that has grown since the first
C13_Witness ==
    /\ Exported
    /\ exports = 2
    /\ Len(store) = 2
    /\ Len(csv) = 3
    /\ csv[2][8] # csv[3][8]
    /\ NoLink \in {csv[2][8], csv[3][8]}

----------------------------------------------------------------------------
(* The fingerprint of lines 89-99 on its own: two entries are drawn and the *)
(* hash of each is computed as search_scopus computes it                    *)

\* entries whose identifier and title may hold the "-" that unique_str puts
\* between the fields
FpEntries ==
    {("prism:doi" :> d) @@ ("dc:title" :> t) @@
     ("prism:coverDate" :> p) @@ ("dc:creator" :> a) :
        d \in {<<"1">>, <<"1", "-", "H">>},
        t \in {<<"H">>, <<"H", "-", "H">>},
        p \in {<<"7">>, <<"8">>},
        a \in {<<"A">>, <<"A", ";", "B">>, <<"B">>}}

InitFp ==
    /\ store = <<>>
    /\ txn = <<>>
    /\ pc = "fp"
    /\ err = "none"
    /\ runq = <<>>
    /\ resp = NoResp
    /\ entries \in {<<e1, e2>> : e1 \in FpEntries, e2 \in FpEntries}
    /\ idx = 0
    /\ rus_title = <<>>
    /\ csv = <<>>
    /\ log = <<>>
    /\ translated = [h \in Hashes |-> 0]
    /\ sent = [h \in Hashes |-> <<>>]
    /\ docs = 0
    /\ cycles = 1
    /\ exports = 0

\* lines 89-99 for the next entry: the four fields, unique_str and its md5
Fingerprint ==
    /\ pc = "fp"
    /\ idx < Len(entries)
    /\ idx' = idx + 1
    /\ log' = Append(log, Event("hash", RecHash(entries[idx + 1])))
    /\ UNCHANGED <<store, txn, pc, err, runq, resp, entries, rus_title, csv,
                   translated, sent, docs, cycles, exports>>

NextFp == Fingerprint

SpecFp == InitFp /\ [][NextFp]_vars

\* the four fields the fingerprint is taken of
FpFields(entry) ==
    <<Doi(entry), EngTitle(entry), PubDate(entry), extract_first_author(entry)>>

\* C14: two records get the same fingerprint if and only if they agree in
\* identifier, normalized title, publication date and first author, the hash
\* being injective on the string it is applied to.
C14_FingerprintIdentifiesFields ==
    (pc = "fp" /\ Len(log) = Len(entries)) =>
        \A i, j \in DOMAIN entries :
            (log[i].hash = log[j].hash) <=>
                (FpFields(entries[i]) = FpFields(entries[j]))

----------------------------------------------------------------------------
\* C15: for a candidate without a DOI field the stored identifier is
\* 'No DOI', every notification of it carries the no-DOI marker and no link
\* button, and its export row has 'No link'; for a candidate with a DOI the
\* notification (text and button) and the export row carry
\* https://doi.org/<DOI>.
C15_DoiMarkerAndLink ==
    \A e \in Entries :
        LET h == RecHash(e)
            has_doi == "prism:doi" \in DOMAIN e
            url == DoiOrg \o e["prism:doi"]
        IN  /\ \A i \in DOMAIN store :
                  store[i].hash = h =>
                     store[i].doi = IF has_doi THEN e["prism:doi"] ELSE NoDOI
            /\ \A k \in DOMAIN sent[h] :
                  IF has_doi
                  THEN /\ sent[h][k].msg.button = url
                       /\ sent[h][k].msg.doi_link =
                             <<"[">> \o e["prism:doi"] \o <<"]", "(">> \o url
                                \o <<")">>
                  ELSE /\ sent[h][k].msg.button = <<>>
                       /\ sent[h][k].msg.doi_link = BezDOI
            /\ \A k \in 2..Len(csv) :
                  csv[k][2] = h =>
                     csv[k][8] = IF has_doi THEN url ELSE NoLink

\* one article with a DOI and one without are stored, notified and exported
C15_Witness ==
    /\ Exported
    /\ Len(store) = 2
    /\ Len(csv) = 3
    /\ \E i, j \in DOMAIN store :
          /\ store[i].hash = RecHash(EntryC)
          /\ store[j].hash = RecHash(EntryA)
          /\ store[i].doi = NoDOI
          /\ store[j].doi = <<"1">>
    /\ \E k \in DOMAIN sent[RecHash(EntryC)] : sent[RecHash(EntryC)][k].ok
    /\ \E k \in DOMAIN sent[RecHash(EntryA)] : sent[RecHash(EntryA)][k].ok

\* C16: a stop at any point of a poll cycle and the restart after it keep
\* every committed row (and undo no notification); in any later cycle a
\* candidate whose row is committed is passed over without an INSERT, a
\* translation or a notification, a candidate without a row goes on to be
\* translated, and the step that ends its processing has its row committed
\* and one more notification made for it.
C16_ResumeAfterStop ==
    [][/\ (pc' = "exited" \/ pc = "exited") =>
             /\ store' = store
             /\ sent' = sent
             /\ txn' = <<>>
       /\ (pc = "check" /\ idx <= Len(entries) /\ pc' # "exited") =>
             IF RowsWith(RecHash(entries[idx])) # {}
             THEN /\ pc' = "check"
                  /\ idx' = idx + 1
                  /\ store' = store
                  /\ sent' = sent
                  /\ translated' = translated
             ELSE /\ pc' = "translate"
                  /\ idx' = idx
       /\ (pc = "send" /\ pc' = "check") =>
             /\ idx' = idx + 1
             /\ RowsWith(RecHash(entries[idx])) # {}
             /\ Len(sent'[RecHash(entries[idx])]) =
                   Len(sent[RecHash(entries[idx])]) + 1]_vars

\* the first cycle was stopped between the commit of EntryA and its
\* notification; the cycle after the restart is handed EntryA and EntryC,
\* passes over EntryA and stores and notifies EntryC
C16_Witness ==
    /\ cycles = 2
    /\ pc = "check"
    /\ entries = <<EntryA, EntryC>>
    /\ idx = Len(entries) + 1
    /\ log[1] = Event("skip", RecHash(EntryA))
    /\ Last(log) = Event("send", RecHash(EntryC))
    /\ sent[RecHash(EntryA)] = <<>>
    /\ Len(sent[RecHash(EntryC)]) = 1
    /\ Len(store) = 2
    /\ store[1].hash = RecHash(EntryA)
    /\ store[2].hash = RecHash(EntryC)

----------------------------------------------------------------------------
\* where the loop of search_scopus stands after the steps in l, read from
\* entry i at stage st on: the entry it is at and the step that is next for
\* that entry; <<0, "none">> when l is not a run of the loop over entries
RECURSIVE Walk(_, _, _)
Walk(l, i, st) ==
    IF l = <<>> THEN <<i, st>>
    ELSE IF i > Len(entries) \/ Head(l).hash # RecHash(entries[i])
         THEN <<0, "none">>
    ELSE LET op == Head(l).op
         IN  IF st = "check" /\ op = "skip"
                THEN Walk(Tail(l), i + 1, "check")
             ELSE IF st = "check" /\ op = "new"
                THEN Walk(Tail(l), i, "translate")
             ELSE IF st = "translate"
                     /\ op \in {"placeholder", "translate", "translate_failed"}
                THEN Walk(Tail(l), i, "insert")
             ELSE IF st = "insert" /\ op = "insert"
                THEN Walk(Tail(l), i, "commit")
             ELSE IF st = "commit" /\ op = "commit"
                THEN Walk(Tail(l), i, "send")
             ELSE IF st = "send" /\ op \in {"send", "send_failed"}
                THEN Walk(Tail(l), i + 1, "check")
             ELSE <<0, "none">>

IsCommit(ev) == ev.op = "commit"

\* C18: while a poll cycle is in its loop, the steps made so far are the
\* steps of the entries in fetch order, all steps of one entry (skip, or
\* translate, insert, commit, notify) before the first step of the next,
\* and the rows committed in the cycle are the last rows of the table, in
\* fetch order.
C18_OneCandidateAtATimeInFetchOrder ==
    pc \in {"check", "translate", "insert", "commit", "send"} =>
       /\ Walk(log, 1, "check") = <<idx, pc>>
       /\ LET commits == SelectSeq(log, IsCommit)
          IN  /\ Len(commits) <= Len(store)
              /\ \A k \in DOMAIN commits :
                    store[Len(store) - Len(commits) + k].hash = commits[k].hash

\* a cycle has stored and notified two new candidates, the one without a
\* DOI first as the fetch returned it
C18_Witness ==
    /\ pc = "check"
    /\ entries = <<EntryC, EntryA>>
    /\ idx = Len(entries) + 1
    /\ Len(SelectSeq(log, IsCommit)) = 2
    /\ log[1] = Event("new", RecHash(EntryC))
    /\ Last(log).hash = RecHash(EntryA)
    /\ store[1].hash = RecHash(EntryC)
    /\ Len(sent[RecHash(EntryC)]) = 1
    /\ Len(sent[RecHash(EntryA)]) = 1

\* C19: every notification made so far is for a hash that has a committed
\* row, and in a poll cycle the step before a notification is the commit of
\* the row of the same record.
C19_NotifiedOnlyAfterCommit ==
    /\ \A h \in Hashes : sent[h] # <<>> => RowsWith(h) # {}
    /\ \A k \in DOMAIN log :
          log[k].op \in {"send", "send_failed"} =>
             /\ k > 1
             /\ log[k - 1] = Event("commit", log[k].hash)

\* the first notification of the run has just been delivered
C19_Witness ==
    \E h \in Hashes :
        /\ cycles = 1
        /\ pc = "check"
        /\ log # <<>>
        /\ Last(log) = Event("send", h)
        /\ Len(sent[h]) = 1
        /\ sent[h][1].ok
        /\ Cardinality(RowsWith(h)) = 1
        /\ \A g \in Hashes \ {h} : sent[g] = <<>>

====
